---- MODULE Spec2Model ----
(***************************************************************************)
(* Model of two components of AmpliGraph:                                  *)
(*   - ampligraph/datasets/source_identifier.py: DataSourceIdentifier and  *)
(*     the loaders it dispatches to (load_csv, load_gz, load_tar, chunks); *)
(*   - ampligraph/latent_features/layers/scoring/TransE.py: the TransE     *)
(*     scoring layer.                                                      *)
(*                                                                         *)
(* Python strings are sequences of atoms.  The atom "." is the only one    *)
(* holding the character '.', and no concatenation of two or more atoms    *)
(* spells a single atom, so splitting on "." and comparing an extension    *)
(* with a key of the loader table are exact on atom sequences.             *)
(***************************************************************************)
EXTENDS Integers, Sequences, FiniteSets

VARIABLES
    phase,            \* identifier: "new" before __init__, "ready" after it
    data_source,      \* self.data_source
    src,              \* self.src (an attribute that may not exist)
    supported_types,  \* self.supported_types
    log,              \* outcomes of the get_src / fetch_loader calls so far
    call,             \* outcome of calling the loader fetched last
    gen,              \* the generator made by chunks(): state, position, size
    yielded,          \* the arrays that generator has yielded so far
    op,               \* scoring layer: the operation run last
    triples,          \* scoring layer: <<s, p, o>>, each an (n, k) tensor
    ent_matrix,       \* scoring layer: (m, k) tensor of corruptions
    shift,            \* scoring layer: the vector added by the caller
    prev,             \* scoring layer: the scores before that translation
    scores            \* scoring layer: the tensor returned last

idVars == <<phase, data_source, src, supported_types, log, call, gen, yielded>>
scVars == <<op, triples, ent_matrix, shift, prev, scores>>
vars == <<phase, data_source, src, supported_types, log, call, gen, yielded,
          op, triples, ent_matrix, shift, prev, scores>>

----------------------------------------------------------------------------
(* Bounds *)

MaxLen == 3       \* atoms in a path string
MaxItems == 3     \* elements of an in-memory iterable
MaxChunk == 2     \* largest chunk_size passed to a loader
MaxCalls == 3     \* get_src / fetch_loader calls recorded

Atoms == {".", "csv", "txt", "gz", "tar", "iter", "x"}
Items == {"e1", "e2"}

Min(a, b) == IF a < b THEN a ELSE b
Max(a, b) == IF a < b THEN b ELSE a

RECURSIVE SeqsUpTo(_, _)
SeqsUpTo(S, n) ==
    IF n = 0 THEN {<<>>}
    ELSE LET shorter == SeqsUpTo(S, n - 1)
         IN  shorter \cup {Append(q, a) : q \in {r \in shorter : Len(r) = n - 1}, a \in S}

----------------------------------------------------------------------------
(* Python values: every value is a record of a type name and a payload.    *)

PyNone == [t |-> "NoneType", v |-> <<>>]
PyStr(s) == [t |-> "str", v |-> s]
PyFunc(name) == [t |-> "function", v |-> <<name>>]
PyObj(name) == [t |-> "object", v |-> <<name>>]
NoAttr == [t |-> "<no attribute>", v |-> <<>>]

Returned(val) == [k |-> "return", v |-> val]
Raised(exc) == [k |-> "raise", v |-> PyObj(exc)]
NotCalled == [k |-> "none", v |-> PyNone]

(* Descriptors handed to DataSourceIdentifier: a str, a non-string         *)
(* Iterable (a list), or an object that is neither (an int, None).         *)
StrDescriptors == {[kind |-> "str", val |-> s] : s \in SeqsUpTo(Atoms, MaxLen)}
IterDescriptors == {[kind |-> "iterable", val |-> s] : s \in SeqsUpTo(Items, MaxItems)}
ObjDescriptors == {[kind |-> "object", val |-> <<"int">>],
                   [kind |-> "object", val |-> <<"NoneType">>]}
Descriptors == StrDescriptors \cup IterDescriptors \cup ObjDescriptors
NoDescriptor == [kind |-> "object", val |-> <<>>]

----------------------------------------------------------------------------
(* str.split(".") and the "in" test on a str *)

Contains(s, a) == \E i \in 1..Len(s) : s[i] = a

RECURSIVE py_split(_, _)
py_split(s, sep) ==
    IF ~Contains(s, sep) THEN <<s>>
    ELSE LET i == CHOOSE j \in 1..Len(s) :
                      s[j] = sep /\ \A h \in 1..(j - 1) : s[h] # sep
         IN  <<SubSeq(s, 1, i - 1)>> \o py_split(SubSeq(s, i + 1, Len(s)), sep)

Last(q) == q[Len(q)]

----------------------------------------------------------------------------
(* The loaders *)

(* load_csv: pandas reads the source; without a chunk size the frame's     *)
(* values are returned, with one the lazy reader is.  Whether pandas can   *)
(* read the source (readable) is outside this code.  chunk_size < 0        *)
(* stands for an omitted argument.                                         *)
load_csv(chunk_size, readable) ==
    IF ~readable \/ chunk_size = 0 THEN Raised("pandas error")
    ELSE IF chunk_size < 0 THEN Returned(PyObj("ndarray"))
    ELSE Returned(PyObj("TextFileReader"))

load_gz == Raised("NotImplementedError")

load_tar == Raised("NotImplementedError")

(* itertools.islice(iterator, n) over a list iterator standing after      *)
(* position pos: the next n elements, fewer when the list ends.            *)
islice(items, pos, n) == SubSeq(items, pos + 1, Min(pos + n, Len(items)))

(* One pass of the for loop of chunks(): the iterator stands after pos <   *)
(* Len(items); first is taken, then islice takes up to chunk_size - 1.     *)
chunks_mutant_slice(items, pos, chunk_size) ==
    <<items[pos + 1]>> \o islice(items, pos + 1, chunk_size)

chunks(items, pos, chunk_size) ==
    <<items[pos + 1]>> \o islice(items, pos + 1, chunk_size - 1)

----------------------------------------------------------------------------
(* DataSourceIdentifier *)

SupportedTypes ==
    [key \in {<<"csv">>, <<"txt">>, <<"gz">>, <<"tar">>, <<"iter">>} |->
        CASE key = <<"csv">> -> "load_csv"
          [] key = <<"txt">> -> "load_csv"
          [] key = <<"gz">> -> "load_csv"
          [] key = <<"tar">> -> "load_tar"
          [] key = <<"iter">> -> "chunks"]

(* _identify: the value of self.src after it ran, NoAttr when no branch    *)
(* assigned it.                                                            *)
identify_mutant_keep_ext(ds, table) ==
    IF ds.kind = "str"
    THEN IF Contains(ds.val, ".") THEN PyStr(Last(py_split(ds.val, "."))) ELSE PyNone
    ELSE IF ds.kind = "iterable" THEN PyStr(<<"iter">>) ELSE NoAttr

identify_mutant_first(ds, table) ==
    IF ds.kind = "str"
    THEN LET ext == IF Contains(ds.val, ".")
                    THEN PyStr(py_split(ds.val, ".")[1]) ELSE PyNone
         IN  IF ext # PyNone /\ ext.v \notin DOMAIN table THEN PyNone ELSE ext
    ELSE IF ds.kind = "iterable" THEN PyStr(<<"iter">>) ELSE NoAttr

_identify(ds, table) ==
    IF ds.kind = "str"
    THEN LET ext == IF Contains(ds.val, ".")
                    THEN PyStr(Last(py_split(ds.val, "."))) ELSE PyNone
         IN  IF ext # PyNone /\ ext.v \notin DOMAIN table THEN PyNone ELSE ext
    ELSE IF ds.kind = "iterable" THEN PyStr(<<"iter">>) ELSE NoAttr

(* Reading self.src: AttributeError when the attribute was never set. *)
ReadSrc(attr) == IF attr = NoAttr THEN Raised("AttributeError") ELSE Returned(attr)

(* self.supported_types[self.src] *)
Lookup(table, attr) ==
    IF attr = NoAttr THEN Raised("AttributeError")
    ELSE IF attr.t = "str" /\ attr.v \in DOMAIN table THEN Returned(PyFunc(table[attr.v]))
    ELSE Raised("KeyError")

NoGen == [state |-> "none", pos |-> 0, size |-> 0]

__init__(ds) ==
    /\ phase = "new"
    /\ phase' = "ready"
    /\ data_source' = ds
    /\ supported_types' = SupportedTypes
    /\ src' = _identify(ds, SupportedTypes)
    /\ UNCHANGED <<log, call, gen, yielded>>
    /\ UNCHANGED scVars

get_src ==
    /\ phase = "ready"
    /\ Len(log) < MaxCalls
    /\ log' = Append(log, [op |-> "get_src", out |-> ReadSrc(src)])
    /\ UNCHANGED <<phase, data_source, src, supported_types, call, gen, yielded>>
    /\ UNCHANGED scVars

fetch_loader_mutant_pop ==
    /\ phase = "ready"
    /\ Len(log) < MaxCalls
    /\ log' = Append(log, [op |-> "fetch_loader", out |-> Lookup(supported_types, src)])
    /\ supported_types' = [key \in DOMAIN supported_types \ {src.v} |-> supported_types[key]]
    /\ UNCHANGED <<phase, data_source, src, call, gen, yielded>>
    /\ UNCHANGED scVars

fetch_loader ==
    /\ phase = "ready"
    /\ Len(log) < MaxCalls
    /\ log' = Append(log, [op |-> "fetch_loader", out |-> Lookup(supported_types, src)])
    /\ UNCHANGED <<phase, data_source, src, supported_types, call, gen, yielded>>
    /\ UNCHANGED scVars

(* The loader a client holds: what the last successful fetch_loader gave. *)
Fetched ==
    {log[i].out.v.v[1] : i \in {j \in 1..Len(log) :
        /\ log[j].op = "fetch_loader" /\ log[j].out.k = "return"
        /\ \A h \in (j + 1)..Len(log) : log[h].op # "fetch_loader"}}

(* loader(data_source, chunk_size): as in the class's usage example, the   *)
(* client calls the loader it fetched on the descriptor it identified.     *)
(* Calling chunks, a generator function, runs none of its body.            *)
Invoke(loader, chunk_size, readable) ==
    CASE loader = "load_csv" -> load_csv(chunk_size, readable)
      [] loader = "load_gz" -> load_gz
      [] loader = "load_tar" -> load_tar
      [] loader = "chunks" -> Returned(PyObj("generator"))

CallLoader(chunk_size, readable) ==
    /\ Fetched # {}
    /\ LET loader == CHOOSE f \in Fetched : TRUE
       IN  /\ call' = Invoke(loader, chunk_size, readable)
           /\ gen' = IF loader = "chunks"
                     THEN [state |-> "suspended", pos |-> 0,
                           size |-> IF chunk_size < 0 THEN 1 ELSE chunk_size]
                     ELSE NoGen
    /\ yielded' = <<>>
    /\ UNCHANGED <<phase, data_source, src, supported_types, log>>
    /\ UNCHANGED scVars

(* What iter() runs over: the elements of a list, the characters of a str. *)
AtomChars(a) ==
    CASE a = "." -> <<".">>
      [] a = "csv" -> <<"c", "s", "v">>
      [] a = "txt" -> <<"t", "x", "t">>
      [] a = "gz" -> <<"g", "z">>
      [] a = "tar" -> <<"t", "a", "r">>
      [] a = "iter" -> <<"i", "t", "e", "r">>
      [] a = "x" -> <<"x">>

RECURSIVE Chars(_)
Chars(s) == IF s = <<>> THEN <<>> ELSE AtomChars(s[1]) \o Chars(Tail(s))

Elements(ds) == IF ds.kind = "str" THEN Chars(ds.val) ELSE ds.val

(* next() on the generator: one pass of the for loop, StopIteration when   *)
(* the iterator is exhausted, ValueError from islice for a negative count. *)
GenNext ==
    /\ gen.state = "suspended"
    /\ IF gen.pos >= Len(Elements(data_source))
       THEN /\ gen' = [gen EXCEPT !.state = "finished"]
            /\ yielded' = yielded
       ELSE IF gen.size - 1 < 0
       THEN /\ gen' = [gen EXCEPT !.state = "failed", !.pos = gen.pos + 1]
            /\ yielded' = yielded
       ELSE LET arr == chunks(Elements(data_source), gen.pos, gen.size)
            IN  /\ gen' = [gen EXCEPT !.pos = gen.pos + Len(arr)]
                /\ yielded' = Append(yielded, arr)
    /\ UNCHANGED <<phase, data_source, src, supported_types, log, call>>
    /\ UNCHANGED scVars

(* chunk_size arguments; -1 stands for an omitted argument. *)
ChunkArgs == (-1)..MaxChunk


----------------------------------------------------------------------------
(* Tensors of the tensor runtime: a shape and one element per index.       *)
(* Elements are binary floating-point numbers with a significand of        *)
(* MantBits bits; the model holds the integer-valued ones.  Every          *)
(* arithmetic operation rounds its exact result to the nearest             *)
(* representable number, ties to the even significand.                     *)

MantBits == 2     \* significand width of the element type
MaxCells == 2     \* elements of one embedding tensor
Vals == {1, 4}    \* element values of the input tensors

RECURSIVE Pow2(_)
Pow2(n) == IF n = 0 THEN 1 ELSE 2 * Pow2(n - 1)

Abs(x) == IF x < 0 THEN -x ELSE x

(* The spacing of representable numbers at magnitude a >= 0. *)
RECURSIVE Quantum(_)
Quantum(a) == IF a < Pow2(MantBits) THEN 1 ELSE 2 * Quantum(a \div 2)

fl(x) ==
    LET a == Abs(x)
        q == Quantum(a)
        lo == (a \div q) * q
        r == a - lo
        up == IF 2 * r > q \/ (2 * r = q /\ (lo \div q) % 2 = 1) THEN lo + q ELSE lo
    IN  IF x < 0 THEN -up ELSE up

Tensor(shape, el) == [shape |-> shape, el |-> el]

Indices(shape) ==
    {idx \in [1..Len(shape) -> 1..MaxCells] : \A i \in 1..Len(shape) : idx[i] <= shape[i]}

(* Broadcasting of two shapes: the shorter is padded on the left with 1s,  *)
(* and a dimension of size 1 stretches to the other's size.                *)
Pad(shape, rank) == [i \in 1..rank |->
    IF i <= rank - Len(shape) THEN 1 ELSE shape[i - (rank - Len(shape))]]

BroadcastShape(sa, sb) ==
    LET rank == Max(Len(sa), Len(sb))
        pa == Pad(sa, rank)
        pb == Pad(sb, rank)
    IN  [i \in 1..rank |-> IF pa[i] = 1 THEN pb[i] ELSE pa[i]]

(* The index into a tensor of shape `shape` that index idx of the          *)
(* broadcast result reads.                                                 *)
Source(idx, shape) ==
    LET off == Len(idx) - Len(shape)
    IN  [i \in 1..Len(shape) |-> IF shape[i] = 1 THEN 1 ELSE idx[i + off]]

tf_add(a, b) ==
    LET shape == BroadcastShape(a.shape, b.shape)
    IN  Tensor(shape, [idx \in Indices(shape) |->
            fl(a.el[Source(idx, a.shape)] + b.el[Source(idx, b.shape)])])

tf_subtract(a, b) ==
    LET shape == BroadcastShape(a.shape, b.shape)
    IN  Tensor(shape, [idx \in Indices(shape) |->
            fl(a.el[Source(idx, a.shape)] - b.el[Source(idx, b.shape)])])

tf_negative(a) == Tensor(a.shape, [idx \in Indices(a.shape) |-> -a.el[idx]])

(* Sequence q with x inserted so that it stands at position i. *)
InsertAt(q, i, x) == SubSeq(q, 1, i - 1) \o <<x>> \o SubSeq(q, i, Len(q))
RemoveAt(q, i) == SubSeq(q, 1, i - 1) \o SubSeq(q, i + 1, Len(q))

(* tf.expand_dims(a, axis), axis counted from 0. *)
tf_expand_dims(a, axis) ==
    LET shape == InsertAt(a.shape, axis + 1, 1)
    IN  Tensor(shape, [idx \in Indices(shape) |-> a.el[RemoveAt(idx, axis + 1)]])

(* tf.norm(a, axis): the Euclidean norm along axis (counted from 0),       *)
(* sqrt(reduce_sum(a * a, axis)).  A norm is held by its radicand, the     *)
(* rounded sum of the rounded squares: sqrt is monotone, and the negated   *)
(* radicand orders and separates scores as the negated norm does.          *)
RECURSIVE SumSquares(_, _, _, _)
SumSquares(a, idx, axis, j) ==
    IF j = 0 THEN 0
    ELSE LET x == a.el[InsertAt(idx, axis + 1, j)]
         IN  fl(SumSquares(a, idx, axis, j - 1) + fl(x * x))

tf_norm(a, axis) ==
    LET shape == RemoveAt(a.shape, axis + 1)
    IN  Tensor(shape, [idx \in Indices(shape) |->
            SumSquares(a, idx, axis, a.shape[axis + 1])])

----------------------------------------------------------------------------
(* TransE *)

compute_scores_mutant_plus(t) ==
    tf_negative(tf_norm(tf_add(tf_add(t[1], t[2]), t[3]), 1))

(* triples[0] + triples[1] - triples[2], then the negated norm over axis 1 *)
_compute_scores(t) ==
    tf_negative(tf_norm(tf_subtract(tf_add(t[1], t[2]), t[3]), 1))

subject_corruption_mutant_axis(t, ent) ==
    LET rel_emb == t[2]
        obj_emb == t[3]
    IN  tf_negative(tf_norm(
            tf_add(tf_expand_dims(ent, 1), tf_subtract(rel_emb, obj_emb)), 2))

_get_subject_corruption_scores(t, ent) ==
    LET rel_emb == t[2]
        obj_emb == t[3]
    IN  tf_negative(tf_norm(
            tf_add(ent, tf_expand_dims(tf_subtract(rel_emb, obj_emb), 1)), 2))

_get_object_corruption_scores(t, ent) ==
    LET sub_emb == t[1]
        rel_emb == t[2]
    IN  tf_negative(tf_norm(
            tf_subtract(tf_expand_dims(tf_add(sub_emb, rel_emb), 1), ent), 2))

NoTensor == Tensor(<<>>, [idx \in {} |-> 0])

(* Input tensors of a shape, with elements from Vals. *)
Tensors(shape) == {Tensor(shape, el) : el \in [Indices(shape) -> Vals]}

(* The caller's translation: the same vector d, of shape (k), added to     *)
(* the rows of the subject and of the object embeddings.                   *)
ShiftEntities(t, d) == <<tf_add(t[1], d), t[2], tf_add(t[3], d)>>
ShiftPredicate(t, d) == <<t[1], tf_add(t[2], d), t[3]>>

ComputeScores ==
    /\ op = "none"
    /\ op' = "scored"
    /\ scores' = _compute_scores(triples)
    /\ UNCHANGED <<triples, ent_matrix, shift, prev>>
    /\ UNCHANGED idVars

SubjectCorruption ==
    /\ op = "none"
    /\ op' = "subject_corruption"
    /\ scores' = _get_subject_corruption_scores(triples, ent_matrix)
    /\ UNCHANGED <<triples, ent_matrix, shift, prev>>
    /\ UNCHANGED idVars

ObjectCorruption ==
    /\ op = "none"
    /\ op' = "object_corruption"
    /\ scores' = _get_object_corruption_scores(triples, ent_matrix)
    /\ UNCHANGED <<triples, ent_matrix, shift, prev>>
    /\ UNCHANGED idVars

(* The batch is scored again with subject and object translated by d. *)
RescoreEntitiesShifted(d) ==
    /\ op = "scored"
    /\ op' = "rescored_entities"
    /\ shift' = d
    /\ prev' = scores
    /\ scores' = _compute_scores(ShiftEntities(triples, d))
    /\ UNCHANGED <<triples, ent_matrix>>
    /\ UNCHANGED idVars

(* The batch is scored again with the predicate alone translated by d. *)
RescorePredicateShifted(d) ==
    /\ op = "scored"
    /\ op' = "rescored_predicate"
    /\ shift' = d
    /\ prev' = scores
    /\ scores' = _compute_scores(ShiftPredicate(triples, d))
    /\ UNCHANGED <<triples, ent_matrix>>
    /\ UNCHANGED idVars

Dim(t) == t[1].shape[2]

----------------------------------------------------------------------------
(* Specifications.  Spec: a DataSourceIdentifier is constructed and used,  *)
(* the scoring layer holds no batch.  SpecScore: the scoring layer is      *)
(* called on a batch, no identifier is constructed.                        *)

Init ==
    /\ phase = "new"
    /\ data_source = NoDescriptor
    /\ src = NoAttr
    /\ supported_types = [key \in {} |-> "none"]
    /\ log = <<>>
    /\ call = NotCalled
    /\ gen = NoGen
    /\ yielded = <<>>
    /\ op = "none"
    /\ triples = <<NoTensor, NoTensor, NoTensor>>
    /\ ent_matrix = NoTensor
    /\ shift = NoTensor
    /\ prev = NoTensor
    /\ scores = NoTensor

Next ==
    \/ \E ds \in Descriptors : __init__(ds)
    \/ get_src
    \/ fetch_loader
    \/ \E c \in ChunkArgs, readable \in BOOLEAN : CallLoader(c, readable)
    \/ GenNext

Spec == Init /\ [][Next]_vars

ScoreInit ==
    /\ phase = "new"
    /\ data_source = NoDescriptor
    /\ src = NoAttr
    /\ supported_types = [key \in {} |-> "none"]
    /\ log = <<>>
    /\ call = NotCalled
    /\ gen = NoGen
    /\ yielded = <<>>
    /\ op = "none"
    /\ \E n \in 0..MaxCells, m \in 0..MaxCells, k \in 1..MaxCells :
        /\ n * k <= MaxCells
        /\ m * k <= MaxCells
        /\ triples \in Tensors(<<n, k>>) \X Tensors(<<n, k>>) \X Tensors(<<n, k>>)
        /\ ent_matrix \in Tensors(<<m, k>>)
    /\ shift = NoTensor
    /\ prev = NoTensor
    /\ scores = NoTensor

ScoreNext ==
    \/ ComputeScores
    \/ SubjectCorruption
    \/ ObjectCorruption
    \/ \E d \in Tensors(<<Dim(triples)>>) : RescoreEntitiesShifted(d)
    \/ \E d \in Tensors(<<Dim(triples)>>) : RescorePredicateShifted(d)

SpecScore == ScoreInit /\ [][ScoreNext]_vars

----------------------------------------------------------------------------
(* Properties of the data source identifier (checked under Spec)           *)

(* The text after the last "." of a path, found from the position of that  *)
(* "." and not by splitting.                                               *)
HasDot(s) == \E i \in 1..Len(s) : s[i] = "."
LastDot(s) == CHOOSE i \in 1..Len(s) : s[i] = "." /\ \A j \in (i + 1)..Len(s) : s[j] # "."
TrailingExtension(s) == SubSeq(s, LastDot(s) + 1, Len(s))

(* A path ends in the text of atom a exactly when a is its last atom. *)
EndsIn(s, a) == Len(s) > 0 /\ s[Len(s)] = a

IsPath == phase = "ready" /\ data_source.kind = "str"
Calls(name) == {i \in 1..Len(log) : log[i].op = name}

(* C1: for every path whose trailing extension is "gz", fetch_loader       *)
(* returns a loader, and that loader raises NotImplementedError as soon as *)
(* it is called.                                                           *)
C1_GzLoaderNotImplemented ==
    (IsPath /\ HasDot(data_source.val) /\ TrailingExtension(data_source.val) = <<"gz">>)
    => /\ \A i \in Calls("fetch_loader") : log[i].out.k = "return"
       /\ call # NotCalled => call = Raised("NotImplementedError")

(* C2, as stated: for every path ending in "csv" or "txt", fetch_loader    *)
(* returns load_csv.                                                       *)
C2_EndingInCsvOrTxt ==
    (IsPath /\ (EndsIn(data_source.val, "csv") \/ EndsIn(data_source.val, "txt")))
    => \A i \in Calls("fetch_loader") : log[i].out = Returned(PyFunc("load_csv"))

(* C2, amended: for every path whose text after the last "." is exactly    *)
(* "csv" or "txt", fetch_loader returns load_csv.                          *)
C2_ExtensionCsvOrTxt ==
    (IsPath /\ HasDot(data_source.val)
        /\ TrailingExtension(data_source.val) \in {<<"csv">>, <<"txt">>})
    => \A i \in Calls("fetch_loader") : log[i].out = Returned(PyFunc("load_csv"))

C2_Witness ==
    /\ IsPath
    /\ data_source.val = <<"x", ".", "txt">>
    /\ Calls("fetch_loader") # {}

(* C3: for every descriptor that is neither a string nor an iterable,      *)
(* construction succeeds and a following get_src returns None.             *)
C3_ObjectTagIsNone ==
    (phase = "ready" /\ data_source.kind = "object")
    => \A i \in Calls("get_src") : log[i].out = Returned(PyNone)

(* The descriptors whose tag is to resolve to absent. *)
AbsentTagDescriptor ==
    \/ data_source.kind = "object"
    \/ /\ data_source.kind = "str"
       /\ \/ ~HasDot(data_source.val)
          \/ TrailingExtension(data_source.val) \notin DOMAIN SupportedTypes

(* C4: for every descriptor whose tag resolves to absent (a string without *)
(* ".", a string with an unsupported extension, a non-iterable object),    *)
(* construction succeeds and fetch_loader fails with a lookup failure      *)
(* (KeyError) on the extension-to-loader table.                            *)
C4_AbsentTagFailsAtLookup ==
    (phase = "ready" /\ AbsentTagDescriptor)
    => \A i \in Calls("fetch_loader") : log[i].out = Raised("KeyError")

(* The arrays of a sequence joined in order. *)
RECURSIVE Concat(_)
Concat(arrays) == IF arrays = <<>> THEN <<>> ELSE arrays[1] \o Concat(Tail(arrays))

(* C5: for every non-string iterable the tag is "iter" and fetch_loader    *)
(* returns chunks; with chunk size c >= 1 the arrays yielded, joined in    *)
(* order, are the elements consumed so far and, once the generator has     *)
(* finished, all L of them; every array but the last holds exactly c       *)
(* elements and the last between 1 and c; nothing is yielded when L = 0.   *)
C5_IterableIsChunked ==
    (phase = "ready" /\ data_source.kind = "iterable")
    => /\ src = PyStr(<<"iter">>)
       /\ \A i \in Calls("get_src") : log[i].out = Returned(PyStr(<<"iter">>))
       /\ \A i \in Calls("fetch_loader") : log[i].out = Returned(PyFunc("chunks"))
       /\ (gen.state # "none" /\ gen.size >= 1)
          => /\ gen.state \in {"suspended", "finished"}
             /\ Concat(yielded) = SubSeq(data_source.val, 1, gen.pos)
             /\ gen.state = "finished" => Concat(yielded) = data_source.val
             /\ \A i \in 1..Len(yielded) :
                   /\ 1 <= Len(yielded[i]) /\ Len(yielded[i]) <= gen.size
                   /\ i < Len(yielded) => Len(yielded[i]) = gen.size
                   /\ Len(yielded[i]) < gen.size => gen.pos = Len(data_source.val)
             /\ Len(data_source.val) = 0 => yielded = <<>>

C5_Witness ==
    /\ phase = "ready" /\ data_source.kind = "iterable"
    /\ Len(data_source.val) = 3
    /\ gen.state = "finished" /\ gen.size = 2
    /\ Len(yielded) = 2 /\ Len(yielded[2]) = 1

(* C6: for a string without ".", and for a string whose text after the     *)
(* last "." is not a key of the table, the tag is None and get_src returns *)
(* None; so the tag of a string is either None or a key of the table.      *)
C6_StringTagNoneOrKey ==
    IsPath
    => /\ (~HasDot(data_source.val)
            \/ TrailingExtension(data_source.val) \notin DOMAIN supported_types)
          => /\ src = PyNone
             /\ \A i \in Calls("get_src") : log[i].out = Returned(PyNone)
       /\ src = PyNone \/ (src.t = "str" /\ src.v \in DOMAIN supported_types)

C6_Witness ==
    /\ IsPath
    /\ data_source.val = <<"csv", ".", "x">>
    /\ Calls("get_src") # {}

(* Calls of the same operation have the same outcome. *)
SameOutcomes(l) ==
    \A i, j \in 1..Len(l) : l[i].op = l[j].op => l[i].out = l[j].out

(* C9: after construction no get_src or fetch_loader call, failing or not, *)
(* changes the descriptor, the tag or the table, and every call of an      *)
(* operation has the outcome of the first call of that operation.          *)
C9_NoMutationAfterConstruction ==
    [][phase = "ready" =>
        /\ data_source' = data_source
        /\ src' = src
        /\ supported_types' = supported_types
        /\ SameOutcomes(log')]_vars

C9_Witness ==
    /\ phase = "ready"
    /\ Len(log) = 3
    /\ log[1].op = "fetch_loader" /\ log[1].out.k = "raise"
    /\ log[2].op = "get_src"
    /\ log[3].op = "fetch_loader"

(* C10: for every string descriptor the tag is never "iter" and            *)
(* fetch_loader never returns chunks.                                      *)
C10_StringNeverIter ==
    IsPath
    => /\ src # PyStr(<<"iter">>)
       /\ \A i \in Calls("fetch_loader") : log[i].out # Returned(PyFunc("chunks"))

----------------------------------------------------------------------------
(* Properties of the scoring layer (checked under SpecScore)               *)

Exact(x) == fl(x) = x

NumTriples == triples[1].shape[1]
NumCandidates == ent_matrix.shape[1]

(* Row i of an (n, k) tensor, as a (1, k) tensor. *)
Row(a, i) ==
    Tensor(<<1, a.shape[2]>>,
           [idx \in Indices(<<1, a.shape[2]>>) |-> a.el[<<i, idx[2]>>]])

(* The positive score of the one triple (s, p, o), each a (1, k) tensor. *)
PositiveScore(s, p, o) == _compute_scores(<<s, p, o>>).el[<<1>>]

(* Shifting the predicate alone can change the score. *)
PredicateShiftCanDiffer ==
    \E s \in Tensors(<<1, 1>>), p \in Tensors(<<1, 1>>), o \in Tensors(<<1, 1>>),
       d \in Tensors(<<1>>) :
        _compute_scores(ShiftPredicate(<<s, p, o>>, d)) # _compute_scores(<<s, p, o>>)

(* C7, as stated: the score of (s + d, p, o + d) equals the score of       *)
(* (s, p, o) row by row, for every batch and every d, whereas a shift of   *)
(* the predicate alone can change the score.                               *)
C7_TranslationInvariant ==
    /\ op = "rescored_entities" => scores = prev
    /\ PredicateShiftCanDiffer

(* No sum of the two computations rounds: s + d, o + d, (s + d) + p,       *)
(* ((s + d) + p) - (o + d), s + p and (s + p) - o are all representable.   *)
TranslationRoundsNothing ==
    \A idx \in Indices(triples[1].shape) :
        LET s == triples[1].el[idx]
            p == triples[2].el[idx]
            o == triples[3].el[idx]
            d == shift.el[<<idx[2]>>]
        IN  /\ Exact(s + d) /\ Exact(o + d)
            /\ Exact(s + d + p) /\ Exact(s + d + p - (o + d))
            /\ Exact(s + p) /\ Exact(s + p - o)

(* C7, amended: the score of (s + d, p, o + d) equals the score of         *)
(* (s, p, o) row by row whenever none of the floating-point sums involved  *)
(* rounds (otherwise the two agree only up to rounding), whereas a shift   *)
(* of the predicate alone can change the score.                            *)
C7_TranslationInvariantWhenExact ==
    /\ (op = "rescored_entities" /\ TranslationRoundsNothing) => scores = prev
    /\ PredicateShiftCanDiffer

C7_Witness ==
    /\ op = "rescored_entities"
    /\ TranslationRoundsNothing
    /\ NumTriples = 2
    /\ scores.shape = <<2>>

SubjectEntryIsPositiveScore(i, j) ==
    scores.el[<<i, j>>] =
        PositiveScore(Row(ent_matrix, j), Row(triples[2], i), Row(triples[3], i))

ObjectEntryIsPositiveScore(i, j) ==
    scores.el[<<i, j>>] =
        PositiveScore(Row(triples[1], i), Row(triples[2], i), Row(ent_matrix, j))

SubjectRoundsNothing(i, j) ==
    \A x \in 1..Dim(triples) :
        LET c == ent_matrix.el[<<j, x>>]
            p == triples[2].el[<<i, x>>]
            o == triples[3].el[<<i, x>>]
        IN  /\ Exact(p - o) /\ Exact(c + (p - o))
            /\ Exact(c + p) /\ Exact(c + p - o)

====
